---- MODULE Spec2Model ----
(***************************************************************************)
(* A model of i3d_mapper.py: the depth-first addressing of a scene tree,   *)
(* the deduplication of node names, the mapping table, the rewrite of the  *)
(* configuration tree and the batch driver.                                *)
(*                                                                         *)
(* Text is modelled as a sequence of one-character strings, so that the    *)
(* formatting of numbers, the address pattern and the suffixing of names   *)
(* are computed character by character as the program computes them.       *)
(* An XML tree is a sequence of elements in which element i names its      *)
(* parent by index (0 for the root); the children of an element are the    *)
(* elements naming it, in increasing index order.                          *)
(* The driver is process_moddesc; every run of the tool is one call of it. *)
(***************************************************************************)
EXTENDS Integers, Sequences, FiniteSets, TLC

VARIABLES
    fs_i3d,         \* scene files on disk: path -> content
    fs_xml,         \* configuration files on disk: path -> content
    moddesc,        \* the package descriptor handed to process_moddesc
    runs,           \* number of runs of the tool still to come
    pc,             \* position of the program
    item,           \* index of the store item the batch loop is at
    xml_path,       \* process_xml: path of the configuration file
    i3d_path,       \* process_xml: resolved path of the scene file
    log,            \* lines written by log(), in order
    writes,         \* files opened for writing, in order, with the content
    shop_xml,       \* process_xml: the parsed configuration tree
    map_cache,      \* process_xml: address -> name
    mapping_root,   \* process_xml: the parsed <i3dMappings> block
    counts,         \* process_xml: replaced_count, fix_count, removed_memory_tags
    this_xml,       \* generate_i3d_mapping: the parsed scene tree
    stack,          \* depth_iter: the stack of child iterators
    unique_names,   \* generate_i3d_mapping: name -> occurrence count
    print_names,    \* generate_i3d_mapping: [name, node_path] pairs
    renamed_nodes,  \* generate_i3d_mapping: (original, renamed) pairs
    last_depth,     \* generate_i3d_mapping
    count_depth,    \* generate_i3d_mapping
    current_component, \* generate_i3d_mapping
    visited         \* the (xml_entry, depth, name, node_path) of each loop iteration

vars == <<fs_i3d, fs_xml, moddesc, runs, pc, item, xml_path, i3d_path, log,
          writes, shop_xml, map_cache, mapping_root, counts, this_xml, stack,
          unique_names, print_names, renamed_nodes, last_depth, count_depth,
          current_component, visited>>

(***************************************************************************)
(* Text                                                                    *)
(***************************************************************************)
DigitChars == <<"0", "1", "2", "3", "4", "5", "6", "7", "8", "9">>

Digits == {DigitChars[i] : i \in 1..10}

\* str(i) of a non-negative integer
RECURSIVE str(_)
str(n) ==
    IF n < 10 THEN <<DigitChars[n + 1]>>
    ELSE str(n \div 10) \o <<DigitChars[(n % 10) + 1]>>

\* the format specification :0>3 : right-aligned in a field of width 3
\* filled with "0"; longer text is left as it is
RECURSIVE PadLeft3(_)
PadLeft3(s) == IF Len(s) >= 3 THEN s ELSE PadLeft3(<<"0">> \o s)

\* "|".join(parts)
RECURSIVE JoinPipe(_)
JoinPipe(parts) ==
    IF parts = <<>> THEN <<>>
    ELSE IF Len(parts) = 1 THEN parts[1]
    ELSE parts[1] \o <<"|">> \o JoinPipe(Tail(parts))

\* str.strip() for the blank character
RECURSIVE strip(_)
strip(s) ==
    IF s = <<>> THEN s
    ELSE IF s[1] = " " THEN strip(Tail(s))
    ELSE IF s[Len(s)] = " " THEN strip(SubSeq(s, 1, Len(s) - 1))
    ELSE s

\* str.startswith(prefix)
startswith(s, prefix) ==
    /\ Len(s) >= Len(prefix)
    /\ SubSeq(s, 1, Len(prefix)) = prefix

DataPrefix == <<"$", "d", "a", "t", "a">>

\* re.fullmatch(r"\d>[0-9|]*", value or "") is not None
is_numeric_node(value) ==
    /\ Len(value) >= 2
    /\ value[1] \in Digits
    /\ value[2] = ">"
    /\ \A i \in 3..Len(value) : value[i] \in Digits \cup {"|"}

\* node_maker(component, depth_list); depth_list = <<>> gives "<component>>"
node_maker(component, depth_list) ==
    str(component) \o <<">">> \o
        JoinPipe([i \in 1..Len(depth_list) |-> str(depth_list[i])])

\* clean_path(base_folder, filename): paths are kept relative to the mod root
clean_path(filename) ==
    strip([i \in 1..Len(filename) |->
              IF filename[i] = "\\" THEN "/" ELSE filename[i]])

(***************************************************************************)
(* Trees                                                                   *)
(***************************************************************************)
Range(f) == {f[x] : x \in DOMAIN f}

\* list(element): the children of element e, in document order
Children(parent, e) ==
    SelectSeq([i \in 1..Len(parent) |-> i], LAMBDA i : parent[i] = e)

\* iter(x) over a list
iter(items) == [items |-> items, pos |-> 0]

\* depth_iter resumed: "e is None" pops the exhausted iterators
RECURSIVE depth_iter_pop(_)
depth_iter_pop(stk) ==
    IF stk = <<>> THEN stk
    ELSE IF stk[Len(stk)].pos >= Len(stk[Len(stk)].items)
         THEN depth_iter_pop(SubSeq(stk, 1, Len(stk) - 1))
         ELSE stk

\* depth_iter_next counting the depth from 0 at the element the traversal
\* starts from
depth_iter_next_from_zero(parent, stk) ==
    LET top == stk[Len(stk)]
        e   == top.items[top.pos + 1]
        pushed == [stk EXCEPT ![Len(stk)].pos = @ + 1]
                      \o <<iter(Children(parent, e))>>
    IN  [e |-> e, depth |-> Len(pushed) - 2, stack |-> pushed]

\* depth_iter: the next (e, depth) and the stack it leaves; stk is non-empty
\* after depth_iter_pop
depth_iter_next(parent, stk) ==
    LET top == stk[Len(stk)]
        e   == top.items[top.pos + 1]
        pushed == [stk EXCEPT ![Len(stk)].pos = @ + 1]
                      \o <<iter(Children(parent, e))>>
    IN  [e |-> e, depth |-> Len(pushed) - 1, stack |-> pushed]

(***************************************************************************)
(* XML text: what ElementTree writes for an attribute value or a text and  *)
(* what its parser reads back                                              *)
(***************************************************************************)
Entities ==
    << [char |-> "&",  ref |-> <<"&", "a", "m", "p", ";">>],
       [char |-> "<",  ref |-> <<"&", "l", "t", ";">>],
       [char |-> ">",  ref |-> <<"&", "g", "t", ";">>],
       [char |-> "\"", ref |-> <<"&", "q", "u", "o", "t", ";">>] >>

EntityOf(c) ==
    IF \E k \in 1..Len(Entities) : Entities[k].char = c
    THEN (CHOOSE e \in {Entities[k] : k \in 1..Len(Entities)} : e.char = c).ref
    ELSE <<c>>

\* ET.tostring: the escaping of an attribute value
RECURSIVE XmlEscape(_)
XmlEscape(s) ==
    IF s = <<>> THEN <<>> ELSE EntityOf(s[1]) \o XmlEscape(Tail(s))

\* str.replace("&gt;", ">")
RECURSIVE ReplaceGt(_)
ReplaceGt(s) ==
    IF s = <<>> THEN <<>>
    ELSE IF startswith(s, <<"&", "g", "t", ";">>)
         THEN <<">">> \o ReplaceGt(SubSeq(s, 5, Len(s)))
         ELSE <<s[1]>> \o ReplaceGt(Tail(s))

\* ET.fromstring on the text of an attribute value written between double
\* quotes: ok is FALSE where the parser raises ParseError
RECURSIVE XmlUnescape(_)
XmlUnescape(s) ==
    IF s = <<>> THEN [ok |-> TRUE, text |-> <<>>]
    ELSE IF s[1] = "&"
         THEN IF \E k \in 1..Len(Entities) : startswith(s, Entities[k].ref)
              THEN LET e == CHOOSE x \in {Entities[k] : k \in 1..Len(Entities)} :
                                startswith(s, x.ref)
                       rest == XmlUnescape(SubSeq(s, Len(e.ref) + 1, Len(s)))
                   IN  [ok |-> rest.ok, text |-> <<e.char>> \o rest.text]
              ELSE [ok |-> FALSE, text |-> <<>>]
    ELSE IF s[1] \in {"<", "\""}
         THEN [ok |-> FALSE, text |-> <<>>]
    ELSE LET rest == XmlUnescape(Tail(s))
         IN  [ok |-> rest.ok, text |-> <<s[1]>> \o rest.text]

(***************************************************************************)
(* Element trees                                                           *)
(***************************************************************************)
RECURSIVE PreorderList(_, _)
PreorderList(parent, list) ==
    IF list = <<>> THEN <<>>
    ELSE <<list[1]>> \o PreorderList(parent, Children(parent, list[1]))
                     \o PreorderList(parent, Tail(list))

\* Element.iter() from the root: every element in document order
Iter(parent) == PreorderList(parent, Children(parent, 0))

\* whether element i lies in the subtree of an element of the set gone
RECURSIVE Detached(_, _, _)
Detached(parent, i, gone) ==
    \/ i \in gone
    \/ parent[i] # 0 /\ Detached(parent, parent[i], gone)

Parents(elems) == [i \in 1..Len(elems) |-> elems[i].parent]

\* the elements outside the subtrees of the elements of gone, in document
\* order
Kept(elems, gone) ==
    SelectSeq(Iter(Parents(elems)),
              LAMBDA i : ~Detached(Parents(elems), i, gone))

\* the index element i has in Prune(elems, gone)
IndexIn(elems, gone, i) ==
    CHOOSE k \in 1..Len(Kept(elems, gone)) : Kept(elems, gone)[k] = i

\* the tree without the subtrees of the elements of gone, in document order
Prune(elems, gone) ==
    LET kept == Kept(elems, gone)
        pos == [i \in Range(kept) |-> CHOOSE k \in 1..Len(kept) : kept[k] = i]
    IN  [k \in 1..Len(kept) |->
            [elems[kept[k]] EXCEPT !.parent = IF @ = 0 THEN 0 ELSE pos[@]]]

\* findall(".//<tag>"): the descendants of the root with that tag that are
\* still attached, in document order
FindAll(elems, gone, tag) ==
    LET parent == Parents(elems)
    IN  SelectSeq(Iter(parent),
                  LAMBDA i : /\ parent[i] # 0
                             /\ elems[i].tag = tag
                             /\ ~Detached(parent, i, gone))

(***************************************************************************)
(* Configuration                                                           *)
(***************************************************************************)
NODE_TYPES ==
    << "node", "repr", "startNode", "endNode", "linkNode", "jointNode",
       "shaderNode", "rotateNode", "referencePoint", "referenceFrame", "index",
       "effectNode", "attachReferenceNode", "lightShaderNode", "driveNode",
       "realLightNode", "targetNode", "baseNode", "playerTriggerNode",
       "vehicleTriggerNode", "visibilityNode", "triggerNode", "activeNode",
       "inactiveNode", "numbers" >>

MEMORY_TAGS ==
    << "vertexBufferMemoryUsage", "indexBufferMemoryUsage",
       "textureMemoryUsage", "audioMemoryUsage",
       "instanceVertexBufferMemoryUsage", "instanceIndexBufferMemoryUsage" >>

EmptyMap == [x \in {} |-> 0]

\* log(msg): the line appended, as the kind of message and its argument
Msg(kind, arg) == [k |-> kind, a |-> arg]

(***************************************************************************)
(* Files: a scene file holds a well-formedness flag, whether the root has  *)
(* a Scene child, and the Scene subtree with the name attributes as        *)
(* written in the file; a configuration file holds a well-formedness flag, *)
(* the text of base/filename and the element tree with the attribute       *)
(* values as written in the file.                                          *)
(***************************************************************************)
\* ET.fromstring(i3d_text) and find('Scene')
ParseScene(content) ==
    LET names == [i \in 1..Len(content.name) |-> XmlUnescape(content.name[i])]
    IN  [ok |-> content.wf /\ \A i \in 1..Len(names) : names[i].ok,
         hasScene |-> content.hasScene,
         parent |-> content.parent,
         name |-> [i \in 1..Len(names) |-> names[i].text]]

\* ET.tostring(updated_i3d_xml.getroot(), encoding='unicode')
WriteScene(tree) ==
    [wf |-> TRUE, hasScene |-> TRUE, parent |-> tree.parent,
     name |-> [i \in 1..Len(tree.name) |-> XmlEscape(tree.name[i])]]

\* ET.fromstring(xml_content)
ParseConfig(content) ==
    LET attrs(i) == [a \in DOMAIN content.elems[i].attrs |->
                        XmlUnescape(content.elems[i].attrs[a])]
        ftext == XmlUnescape(content.filename.text)
    IN  [ok |-> /\ content.wf
                /\ ftext.ok
                /\ \A i \in 1..Len(content.elems) :
                       \A a \in DOMAIN content.elems[i].attrs : attrs(i)[a].ok,
         filename |-> [present |-> content.filename.present, text |-> ftext.text],
         elems |-> [i \in 1..Len(content.elems) |->
                       [content.elems[i] EXCEPT
                           !.attrs = [a \in DOMAIN @ |-> attrs(i)[a].text]]]]

\* ET.tostring(shop_xml, encoding='unicode').replace("&gt;", ">")
WriteConfig(tree) ==
    LET ordered == Prune(tree.elems, {})
    IN  [wf |-> TRUE,
         filename |-> [present |-> tree.filename.present,
                       text |-> ReplaceGt(XmlEscape(tree.filename.text))],
         elems |-> [i \in 1..Len(ordered) |->
                       [ordered[i] EXCEPT
                           !.attrs = [a \in DOMAIN @ |-> ReplaceGt(XmlEscape(@[a]))]]]]

NoTree == [filename |-> [present |-> FALSE, text |-> <<>>], elems |-> <<>>]

NoScene == [parent |-> <<>>, name |-> <<>>]

NoCounts == [replaced |-> 0, fixed |-> 0, removed |-> 0]

(***************************************************************************)
(* process_xml: the except clause and the return                           *)
(***************************************************************************)
\* the exception leaving process_xml
except_Exception_propagates(lg, path) == [pc |-> "crashed", log |-> lg]

\* except Exception as e: log(...) -- the call returns normally
except_Exception(lg, path) ==
    [pc |-> "items", log |-> lg \o <<Msg("ERROR while processing", path)>>]

\* the registry kept from the previous call
new_unique_names_kept(previous) == previous

\* unique_names = {}
new_unique_names(previous) == EmptyMap

\* lines 208-252, up to the call of generate_i3d_mapping and lines 131-141
\* of it: the outcome is "raise", "return" or "go"
process_xml_open(path, lg) ==
    LET lg1 == lg \o <<Msg("Processing XML", path)>>
        shop == ParseConfig(fs_xml[path])
        i3d_filename == strip(shop.filename.text)
        ipath == clean_path(i3d_filename)
        scene == ParseScene(fs_i3d[ipath])
        lg2 == lg1 \o <<Msg("i3d path resolved to", ipath)>>
        out(o, l) == [outcome |-> o, log |-> l]
    IN  IF path \notin DOMAIN fs_xml
            THEN out("return", lg1 \o <<Msg("XML file not found", path)>>)
        ELSE IF ~shop.ok
            THEN out("raise", lg1)
        ELSE IF ~shop.filename.present \/ shop.filename.text = <<>>
                \/ i3d_filename = <<>>
            THEN out("return", lg1 \o <<Msg("filename tag missing or empty", <<>>)>>)
        ELSE IF startswith(i3d_filename, DataPrefix)
            THEN out("return", lg1 \o <<Msg("i3d file is in $data", i3d_filename)>>)
        ELSE IF ipath \notin DOMAIN fs_i3d
            THEN out("return", lg2 \o <<Msg(".i3d file not found", ipath)>>)
        ELSE IF ~scene.ok
            THEN out("return", lg2 \o <<Msg("Failed to parse i3d file", ipath)>>)
        ELSE IF ~scene.hasScene
            THEN out("return", lg2 \o <<Msg("No <Scene> node found in i3d", ipath)>>)
        ELSE out("go", lg2)

(***************************************************************************)
(* generate_i3d_mapping: the body of the loop                              *)
(***************************************************************************)
\* ensure_unique registering the first occurrence with count 0
ensure_unique_from_zero(names, name, depth) ==
    IF depth > 1 /\ name # <<>>
    THEN IF name \in DOMAIN names
         THEN LET n == names[name] + 1
              IN  [unique_names |-> [names EXCEPT ![name] = n],
                   name |-> name \o <<"_">> \o PadLeft3(str(n)),
                   renamed |-> TRUE]
         ELSE [unique_names |-> (name :> 0) @@ names,
               name |-> name, renamed |-> FALSE]
    ELSE [unique_names |-> names, name |-> name, renamed |-> FALSE]

\* lines 153-161: the registry, the effective name and whether it is a rename
ensure_unique(names, name, depth) ==
    IF depth > 1 /\ name # <<>>
    THEN IF name \in DOMAIN names
         THEN LET n == names[name] + 1
              IN  [unique_names |-> [names EXCEPT ![name] = n],
                   name |-> name \o <<"_">> \o PadLeft3(str(n)),
                   renamed |-> TRUE]
         ELSE [unique_names |-> (name :> 1) @@ names,
               name |-> name, renamed |-> FALSE]
    ELSE [unique_names |-> names, name |-> name, renamed |-> FALSE]

\* address_step removing one entry of the sibling counts, however far the
\* depth dropped
address_step_pop_one(depth, component, counts_, last) ==
    IF depth = 2
    THEN [has |-> TRUE, current_component |-> component + 1,
          count_depth |-> <<>>, last_depth |-> 0,
          node_path |-> node_maker(component + 1, <<>>)]
    ELSE IF depth > 2
    THEN LET last_map_index == depth - 2
             popped == IF last > last_map_index
                       THEN SubSeq(counts_, 1, Len(counts_) - 1) ELSE counts_
             cd == IF last_map_index > last
                   THEN counts_ \o [i \in 1..(last_map_index - last) |-> 0]
                   ELSE IF popped # <<>>
                        THEN [popped EXCEPT ![Len(popped)] = @ + 1]
                        ELSE popped
         IN  [has |-> TRUE, current_component |-> component,
              count_depth |-> cd, last_depth |-> last_map_index,
              node_path |-> node_maker(component, cd)]
    ELSE [has |-> FALSE, current_component |-> component,
          count_depth |-> counts_, last_depth |-> last, node_path |-> <<>>]

\* lines 163-186: the component counter, the sibling counts and the address;
\* has is FALSE where no address is computed. Len(count_depth) = last_depth
\* holds before and after, so count_depth[last_map_index - 1] is in range
address_step(depth, component, counts_, last) ==
    IF depth = 2
    THEN [has |-> TRUE, current_component |-> component + 1,
          count_depth |-> <<>>, last_depth |-> 0,
          node_path |-> node_maker(component + 1, <<>>)]
    ELSE IF depth > 2
    THEN LET last_map_index == depth - 2
             popped == SubSeq(counts_, 1,
                              IF Len(counts_) > last - last_map_index
                              THEN Len(counts_) - (last - last_map_index) ELSE 0)
             cd == IF last_map_index > last
                   THEN counts_ \o [i \in 1..(last_map_index - last) |-> 0]
                   ELSE IF popped # <<>>
                        THEN [popped EXCEPT ![last_map_index] = @ + 1]
                        ELSE popped
         IN  [has |-> TRUE, current_component |-> component,
              count_depth |-> cd, last_depth |-> last_map_index,
              node_path |-> node_maker(component, cd)]
    ELSE [has |-> FALSE, current_component |-> component,
          count_depth |-> counts_, last_depth |-> last, node_path |-> <<>>]

\* lines 254-258: the address -> name cache, the last entry of an address wins
RECURSIVE build_map_cache(_, _)
build_map_cache(entries, cache) ==
    IF entries = <<>> THEN cache
    ELSE build_map_cache(Tail(entries),
                         (entries[1].node :> entries[1].id) @@ cache)

\* ET.fromstring(i3d_mapping_text): the entries as the parser reads the text
\* built at lines 188-192
ParseMapping(names) ==
    LET ids == [i \in 1..Len(names) |-> XmlUnescape(names[i].name)]
        nodes == [i \in 1..Len(names) |-> XmlUnescape(names[i].node)]
    IN  [ok |-> \A i \in 1..Len(names) : ids[i].ok /\ nodes[i].ok,
         entries |-> [i \in 1..Len(names) |->
                         [id |-> ids[i].text, node |-> nodes[i].text]]]

(***************************************************************************)
(* process_xml: the phases on the configuration tree                       *)
(***************************************************************************)
\* Replaces without the exemption of the mapping entries
Replaces_any_tag(elems, cache, i, this_type) ==
    /\ elems[i].parent # 0
    /\ this_type \in DOMAIN elems[i].attrs
    /\ elems[i].attrs[this_type] # <<>>
    /\ is_numeric_node(elems[i].attrs[this_type])
    /\ elems[i].attrs[this_type] \in DOMAIN cache

\* lines 262-268: whether the attribute this_type of element i is replaced;
\* findall(".//*[@this_type]") reaches the elements below the root that
\* carry the attribute
Replaces(elems, cache, i, this_type) ==
    /\ elems[i].parent # 0
    /\ this_type \in DOMAIN elems[i].attrs
    /\ elems[i].tag # "i3dMapping"
    /\ elems[i].attrs[this_type] # <<>>
    /\ is_numeric_node(elems[i].attrs[this_type])
    /\ elems[i].attrs[this_type] \in DOMAIN cache

\* lines 260-269: each attribute is visited once, under its own type
replace_numeric(elems, cache) ==
    LET types == Range(NODE_TYPES)
        hit(i, a) == a \in types /\ Replaces(elems, cache, i, a)
    IN  [elems |-> [i \in 1..Len(elems) |->
                      [elems[i] EXCEPT
                          !.attrs = [a \in DOMAIN @ |->
                                        IF hit(i, a) THEN cache[@[a]] ELSE @[a]]]],
         count |-> Cardinality({<<i, a>> \in (1..Len(elems)) \X types :
                                    hit(i, a)})]

MappingElems(entries, container) ==
    [k \in 1..Len(entries) |->
        [parent |-> container, tag |-> "i3dMapping",
         attrs |-> ("id" :> entries[k].id) @@ ("node" :> entries[k].node)]]

\* lines 271-282
replace_mappings(elems, entries) ==
    LET found == FindAll(elems, {}, "i3dMappings")
    IN  IF found # <<>>
        THEN LET kids == Range(Children(Parents(elems), found[1]))
             IN  [existing |-> TRUE,
                  elems |-> Prune(elems, kids)
                      \o MappingElems(entries, IndexIn(elems, kids, found[1]))]
        ELSE [existing |-> FALSE,
              elems |-> elems
                  \o <<[parent |-> 1, tag |-> "i3dMappings", attrs |-> EmptyMap]>>
                  \o MappingElems(entries, Len(elems) + 1)]

\* lines 284-292
fix_index(elems, cache) ==
    LET hit(i) == /\ elems[i].parent # 0
                  /\ elems[i].tag = "i3dMapping"
                  /\ "index" \in DOMAIN elems[i].attrs
                  /\ elems[i].attrs["index"] # <<>>
                  /\ is_numeric_node(elems[i].attrs["index"])
                  /\ elems[i].attrs["index"] \in DOMAIN cache
    IN  [elems |-> [i \in 1..Len(elems) |->
                      IF hit(i)
                      THEN [elems[i] EXCEPT !.attrs["index"] = cache[@]]
                      ELSE elems[i]],
         count |-> Cardinality({i \in 1..Len(elems) : hit(i)})]

\* lines 300-306: the search for the parent of elem in the tree as it is now;
\* an element whose ancestor was removed is no longer found
remove_elem(elems, st, elem) ==
    IF Detached(Parents(elems), elem, st.gone)
    THEN st
    ELSE [gone |-> st.gone \cup {elem}, count |-> st.count + 1]

RECURSIVE remove_each(_, _, _)
remove_each(elems, st, found) ==
    IF found = <<>> THEN st
    ELSE remove_each(elems, remove_elem(elems, st, found[1]), Tail(found))

\* lines 297-306
RECURSIVE remove_memory_tags(_, _, _)
remove_memory_tags(elems, st, tags) ==
    IF tags = <<>> THEN st
    ELSE remove_memory_tags(
             elems,
             remove_each(elems, st, FindAll(elems, st.gone, tags[1])),
             Tail(tags))

(***************************************************************************)
(* The program                                                             *)
(***************************************************************************)
genvars == <<this_xml, stack, print_names, renamed_nodes, last_depth,
             count_depth, current_component, visited>>

pxvars == <<shop_xml, map_cache, mapping_root, counts>>

disk == <<fs_i3d, fs_xml, writes>>

\* process_moddesc, lines 342-366; init_logger starts the log anew
process_moddesc ==
    /\ pc = "idle"
    /\ runs > 0
    /\ runs' = runs - 1
    /\ LET lg == <<Msg("I3D Mapper Log", <<>>), Msg("Mod root", <<>>)>>
       IN  IF ~moddesc.wf
           THEN /\ log' = lg \o <<Msg("Failed to parse modDesc", <<>>)>>
                /\ pc' = "idle"
           ELSE IF moddesc.items = <<>>
           THEN /\ log' = lg \o <<Msg("No storeItem entries found", <<>>)>>
                /\ pc' = "idle"
           ELSE /\ log' = lg \o <<Msg("Found storeItem entries",
                                      str(Len(moddesc.items)))>>
                /\ pc' = "items"
    /\ item' = 1
    /\ UNCHANGED <<moddesc, xml_path, i3d_path, unique_names>>
    /\ UNCHANGED <<disk, pxvars, genvars>>

\* process_moddesc, lines 368-378: one iteration of the loop, up to the call
store_item ==
    /\ pc = "items"
    /\ IF item > Len(moddesc.items)
       THEN /\ pc' = "idle"
            /\ UNCHANGED <<item, xml_path, log>>
       ELSE LET xml_filename == moddesc.items[item]
            IN  IF xml_filename = <<>>
                THEN /\ item' = item + 1
                     /\ UNCHANGED <<pc, xml_path, log>>
                ELSE IF clean_path(xml_filename) \notin DOMAIN fs_xml
                THEN /\ item' = item + 1
                     /\ log' = log \o <<Msg("Vehicle XML not found",
                                            clean_path(xml_filename))>>
                     /\ UNCHANGED <<pc, xml_path>>
                ELSE /\ xml_path' = clean_path(xml_filename)
                     /\ pc' = "process_xml"
                     /\ UNCHANGED <<item, log>>
    /\ UNCHANGED <<moddesc, runs, i3d_path, unique_names>>
    /\ UNCHANGED <<disk, pxvars, genvars>>

\* process_xml, lines 208-252, and generate_i3d_mapping, lines 131-147
process_xml ==
    /\ pc = "process_xml"
    /\ LET r == process_xml_open(xml_path, log)
       IN  IF r.outcome = "go"
           THEN LET shop == ParseConfig(fs_xml[xml_path])
                    ipath == clean_path(strip(shop.filename.text))
                    scene == ParseScene(fs_i3d[ipath])
                IN  /\ pc' = "scene"
                    /\ log' = r.log
                    /\ shop_xml' = [filename |-> shop.filename, elems |-> shop.elems]
                    /\ i3d_path' = ipath
                    /\ this_xml' = [parent |-> scene.parent, name |-> scene.name]
                    /\ stack' = <<iter(<<1>>)>>
                    /\ unique_names' = new_unique_names(unique_names)
                    /\ UNCHANGED item
           ELSE LET x == IF r.outcome = "raise"
                         THEN except_Exception(r.log, xml_path)
                         ELSE [pc |-> "items", log |-> r.log]
                IN  /\ pc' = x.pc
                    /\ log' = x.log
                    /\ item' = item + 1
                    /\ shop_xml' = NoTree
                    /\ i3d_path' = <<>>
                    /\ this_xml' = NoScene
                    /\ stack' = <<>>
                    /\ UNCHANGED unique_names
    /\ map_cache' = EmptyMap
    /\ mapping_root' = <<>>
    /\ counts' = NoCounts
    /\ print_names' = <<>>
    /\ renamed_nodes' = <<>>
    /\ last_depth' = 0
    /\ count_depth' = <<>>
    /\ current_component' = -1
    /\ visited' = <<>>
    /\ UNCHANGED <<moddesc, runs, xml_path, disk>>

\* generate_i3d_mapping, lines 149-186: one iteration of the loop
generate_i3d_mapping_loop ==
    /\ pc = "scene"
    /\ depth_iter_pop(stack) # <<>>
    /\ LET y == depth_iter_next(this_xml.parent, depth_iter_pop(stack))
           u == ensure_unique(unique_names, this_xml.name[y.e], y.depth)
           a == address_step(y.depth, current_component, count_depth, last_depth)
       IN  /\ stack' = y.stack
           /\ unique_names' = u.unique_names
           /\ this_xml' = [this_xml EXCEPT !.name[y.e] = u.name]
           /\ renamed_nodes' = IF u.renamed
                               THEN Append(renamed_nodes,
                                           <<this_xml.name[y.e], u.name>>)
                               ELSE renamed_nodes
           /\ current_component' = a.current_component
           /\ count_depth' = a.count_depth
           /\ last_depth' = a.last_depth
           /\ print_names' = IF a.has /\ u.name # <<>>
                             THEN Append(print_names,
                                         [name |-> u.name, node |-> a.node_path])
                             ELSE print_names
           /\ visited' = Append(visited,
                                [e |-> y.e, depth |-> y.depth, name |-> u.name,
                                 has |-> a.has, node_path |-> a.node_path])
    /\ UNCHANGED <<moddesc, runs, pc, item, xml_path, i3d_path, log, disk, pxvars>>

\* generate_i3d_mapping, lines 188-201, and process_xml, lines 251-258
generate_i3d_mapping_return ==
    /\ pc = "scene"
    /\ depth_iter_pop(stack) = <<>>
    /\ stack' = <<>>
    /\ LET lg == log \o <<IF renamed_nodes # <<>>
                          THEN Msg("duplicate node name(s) were renamed",
                                   str(Len(renamed_nodes)))
                          ELSE Msg("No duplicate node names found", <<>>)>>
           m == ParseMapping(print_names)
       IN  IF m.ok
           THEN /\ mapping_root' = m.entries
                /\ map_cache' = build_map_cache(m.entries, EmptyMap)
                /\ log' = lg
                /\ pc' = "replace"
                /\ UNCHANGED item
           ELSE /\ UNCHANGED <<mapping_root, map_cache>>
                /\ log' = except_Exception(lg, xml_path).log
                /\ pc' = except_Exception(lg, xml_path).pc
                /\ item' = item + 1
    /\ UNCHANGED <<moddesc, runs, xml_path, i3d_path, disk, shop_xml, counts,
                   this_xml, unique_names, print_names, renamed_nodes,
                   last_depth, count_depth, current_component, visited>>

\* process_xml, lines 260-269
process_xml_replace ==
    /\ pc = "replace"
    /\ LET r == replace_numeric(shop_xml.elems, map_cache)
       IN  /\ shop_xml' = [shop_xml EXCEPT !.elems = r.elems]
           /\ counts' = [counts EXCEPT !.replaced = r.count]
           /\ log' = log \o <<Msg("Replaced numeric node reference(s)",
                                  str(r.count))>>
    /\ pc' = "mappings"
    /\ UNCHANGED <<moddesc, runs, item, xml_path, i3d_path, disk, map_cache,
                   mapping_root, unique_names, genvars>>

\* process_xml, lines 271-282
process_xml_mappings ==
    /\ pc = "mappings"
    /\ LET r == replace_mappings(shop_xml.elems, mapping_root)
       IN  /\ shop_xml' = [shop_xml EXCEPT !.elems = r.elems]
           /\ log' = log \o <<IF r.existing
                              THEN Msg("Found existing <i3dMappings>", <<>>)
                              ELSE Msg("Adding new <i3dMappings> section", <<>>)>>
    /\ pc' = "fix"
    /\ UNCHANGED <<moddesc, runs, item, xml_path, i3d_path, disk, map_cache,
                   mapping_root, counts, unique_names, genvars>>

\* process_xml, lines 284-292
process_xml_fix ==
    /\ pc = "fix"
    /\ LET r == fix_index(shop_xml.elems, map_cache)
       IN  /\ shop_xml' = [shop_xml EXCEPT !.elems = r.elems]
           /\ counts' = [counts EXCEPT !.fixed = r.count]
           /\ log' = IF r.count # 0
                     THEN log \o <<Msg("Fixed i3dMapping index attribute(s)",
                                       str(r.count))>>
                     ELSE log
    /\ pc' = "memory"
    /\ UNCHANGED <<moddesc, runs, item, xml_path, i3d_path, disk, map_cache,
                   mapping_root, unique_names, genvars>>

\* process_xml, lines 297-311
process_xml_memory ==
    /\ pc = "memory"
    /\ LET st == remove_memory_tags(shop_xml.elems, [gone |-> {}, count |-> 0],
                                    MEMORY_TAGS)
       IN  /\ shop_xml' = [shop_xml EXCEPT !.elems = Prune(@, st.gone)]
           /\ counts' = [counts EXCEPT !.removed = st.count]
           /\ log' = log \o <<IF st.count # 0
                              THEN Msg("Removed memory usage tag(s)", str(st.count))
                              ELSE Msg("No memory usage tags found to remove", <<>>)>>
    /\ pc' = "write"
    /\ UNCHANGED <<moddesc, runs, item, xml_path, i3d_path, disk, map_cache,
                   mapping_root, unique_names, genvars>>

\* process_xml, lines 313-333
process_xml_write ==
    /\ pc = "write"
    /\ fs_i3d' = [fs_i3d EXCEPT ![i3d_path] = WriteScene(this_xml)]
    /\ fs_xml' = [fs_xml EXCEPT ![xml_path] = WriteConfig(shop_xml)]
    /\ writes' = writes \o << [path |-> i3d_path, content |-> WriteScene(this_xml)],
                              [path |-> xml_path, content |-> WriteConfig(shop_xml)] >>
    /\ log' = log \o << Msg("Updated i3d file written", i3d_path),
                        Msg("Updated XML file written", xml_path),
                        Msg("Success", <<>>) >>
    /\ pc' = "items"
    /\ item' = item + 1
    /\ UNCHANGED <<moddesc, runs, xml_path, i3d_path, pxvars, unique_names, genvars>>

Next ==
    \/ process_moddesc
    \/ store_item
    \/ process_xml
    \/ generate_i3d_mapping_loop
    \/ generate_i3d_mapping_return
    \/ process_xml_replace
    \/ process_xml_mappings
    \/ process_xml_fix
    \/ process_xml_memory
    \/ process_xml_write

(***************************************************************************)
(* Inputs                                                                  *)
(***************************************************************************)
W == <<"w">>

W2 == <<"w", "_", "0", "0", "2">>

W22 == <<"w", "_", "0", "0", "2", "_", "0", "0", "2">>

\* the trees of n elements: element 1 is the root, every other element has
\* an earlier element as its parent
Shapes(n) ==
    {p \in [1..n -> 0..(n - 1)] :
        p[1] = 0 /\ \A i \in 2..n : p[i] \in 1..(i - 1)}

SceneFile(parent, names) ==
    [wf |-> TRUE, hasScene |-> TRUE, parent |-> parent, name |-> names]

Elem(parent, tag, attrs) == [parent |-> parent, tag |-> tag, attrs |-> attrs]

ConfigFile(text, elems) ==
    [wf |-> TRUE, filename |-> [present |-> TRUE, text |-> text],
     elems |-> <<Elem(0, "vehicle", EmptyMap)>> \o elems]

PathA == <<"a">>

PathV == <<"v">>

InitWith(i3d, xml, desc, n) ==
    /\ fs_i3d = i3d
    /\ fs_xml = xml
    /\ moddesc = desc
    /\ runs = n
    /\ pc = "idle"
    /\ item = 1
    /\ xml_path = <<>>
    /\ i3d_path = <<>>
    /\ log = <<>>
    /\ writes = <<>>
    /\ shop_xml = NoTree
    /\ map_cache = EmptyMap
    /\ mapping_root = <<>>
    /\ counts = NoCounts
    /\ this_xml = NoScene
    /\ stack = <<>>
    /\ unique_names = EmptyMap
    /\ print_names = <<>>
    /\ renamed_nodes = <<>>
    /\ last_depth = 0
    /\ count_depth = <<>>
    /\ current_component = -1
    /\ visited = <<>>

OneItem == [wf |-> TRUE, items |-> <<PathV>>]

PlainConfig ==
    ConfigFile(PathA, <<Elem(1, "part", ("node" :> <<"0", ">">>))>>)

\* Addressing: every tree shape of up to MaxShape elements under one of two
\* namings
MaxShape == 6

InitAddr ==
    \E n \in 1..MaxShape : \E p \in Shapes(n) : \E nm \in {<<>>, W} :
        InitWith((PathA :> SceneFile(p, [i \in 1..n |-> nm])),
                 (PathV :> PlainConfig), OneItem, 1)

SpecAddr == InitAddr /\ [][Next]_vars

\* Names: every tree shape of up to MaxNamed elements with every naming
\* over NameSet
MaxNamed == 4

NameSet == {<<>>, W, W2}

InitNames ==
    \E n \in 1..MaxNamed : \E p \in Shapes(n) : \E nm \in [1..n -> NameSet] :
        InitWith((PathA :> SceneFile(p, nm)),
                 (PathV :> PlainConfig), OneItem, 1)

SpecNames == InitNames /\ [][Next]_vars

\* Rewrite: a scene of one or of MaxComps components, the last with one
\* child, every node named w; a configuration of up to two elements, each a
\* part or a mapping entry with one attribute, under a root with or without
\* a reference attribute
MaxComps == 11

FlatScene(k) ==
    SceneFile([i \in 1..(k + 2) |-> IF i = 1 THEN 0 ELSE IF i = k + 2 THEN k + 1 ELSE 1],
              [i \in 1..(k + 2) |-> IF i = 1 THEN <<>> ELSE W])

RewriteValues ==
    { <<"0", ">">>, node_maker(MaxComps - 1, <<>>),
      node_maker(MaxComps - 1, <<0>>), <<"a", "b", "c">> }

RewriteElems(parent) ==
    { Elem(parent, t, (a :> v)) :
        t \in {"part", "i3dMapping"}, a \in {"node", "index", "other"},
        v \in RewriteValues }

RewriteConfigs ==
    { [wf |-> TRUE, filename |-> [present |-> TRUE, text |-> PathA],
       elems |-> <<Elem(0, "vehicle", ra)>> \o es] :
        ra \in {EmptyMap, ("node" :> <<"0", ">">>)},
        es \in {<<e>> : e \in RewriteElems(1)}
               \cup {<<e, f>> : e \in RewriteElems(1),
                                f \in RewriteElems(1) \cup RewriteElems(2)} }

InitRewrite ==
    \E k \in {1, MaxComps} : \E c \in RewriteConfigs :
        InitWith((PathA :> FlatScene(k)), (PathV :> c), OneItem, 1)

SpecRewrite == InitRewrite /\ [][Next]_vars

\* Strip: a configuration of up to MaxCfg elements under the root, of every
\* shape, each a part or one of two memory-usage elements
MaxCfg == 3

StripTags == {"part", "textureMemoryUsage", "vertexBufferMemoryUsage"}

InitStrip ==
    \E n \in 1..(MaxCfg + 1) : \E p \in Shapes(n) :
    \E t \in [2..n -> StripTags] :
        InitWith((PathA :> FlatScene(1)),
                 (PathV :> [wf |-> TRUE,
                            filename |-> [present |-> TRUE, text |-> PathA],
                            elems |-> [i \in 1..n |->
                                Elem(p[i], IF i = 1 THEN "vehicle" ELSE t[i],
                                     EmptyMap)]]),
                 OneItem, 1)

SpecStrip == InitStrip /\ [][Next]_vars

\* Stable: the tool run MaxRuns times on one pair; every scene shape of up
\* to MaxStable elements, the nodes below the root named w, w_002 or
\* w_002_002
MaxRuns == 3

MaxStable == 5

InitStable ==
    \E n \in 2..MaxStable : \E p \in Shapes(n) :
    \E nm \in [2..n -> {W, W2, W22}] :
        InitWith((PathA :> SceneFile(p, [i \in 1..n |->
                                            IF i = 1 THEN <<>> ELSE nm[i]])),
                 (PathV :> PlainConfig), OneItem, MaxRuns)

SpecStable == InitStable /\ [][Next]_vars

\* Batch: a descriptor of up to MaxItems store items over two configuration
\* files, an absent one and an item without xmlFilename; the first
\* configuration file or its scene file may be in each of the failing forms
MaxItems == 3

PathU == <<"u">>

PathB == <<"b">>

PathX == <<"x">>

RECURSIVE SeqsUpTo(_, _)
SeqsUpTo(S, n) ==
    IF n = 0 THEN {<<>>}
    ELSE SeqsUpTo(S, n - 1)
             \cup {Append(q, x) : q \in {r \in SeqsUpTo(S, n - 1) : Len(r) = n - 1},
                                  x \in S}

TwoWheels == SceneFile(<<0, 1, 1>>, <<<<>>, W, W>>)

GoodConfig(text) == ConfigFile(text, <<Elem(1, "part", ("node" :> <<"0", ">">>))>>)

BatchConfigs ==
    { GoodConfig(PathA),
      GoodConfig(<<" ", "a", " ">>),
      [GoodConfig(PathA) EXCEPT !.wf = FALSE],
      [GoodConfig(PathA) EXCEPT !.filename.present = FALSE, !.filename.text = <<>>],
      GoodConfig(<<" ">>),
      GoodConfig(DataPrefix \o <<"/", "a">>),
      GoodConfig(<<"z">>),
      ConfigFile(PathA, <<Elem(1, "part", ("node" :> <<"&">>))>>) }

BatchScenes ==
    { TwoWheels,
      [TwoWheels EXCEPT !.wf = FALSE],
      [TwoWheels EXCEPT !.hasScene = FALSE],
      SceneFile(<<0, 1, 1>>, <<<<>>, XmlEscape(<<"&">>), W>>) }

InitBatch ==
    \E f \in ({[c |-> c, s |-> TwoWheels] : c \in BatchConfigs}
              \cup {[c |-> GoodConfig(PathA), s |-> s] : s \in BatchScenes}) :
    \E w \in BOOLEAN :
    \E items \in SeqsUpTo({<<>>, PathV, PathU, PathX}, MaxItems) :
        /\ (~w => items = <<PathV>>)
        /\ InitWith((PathA :> f.s) @@ (PathB :> TwoWheels)
                        @@ (DataPrefix \o <<"/", "a">> :> TwoWheels),
                    (PathV :> f.c) @@ (PathU :> GoodConfig(PathB)),
                    [wf |-> w, items |-> items], 1)

SpecBatch == InitBatch /\ [][Next]_vars

(***************************************************************************)
(* Reference notions, read off the tree alone                              *)
(***************************************************************************)
\* the number of edges between element i and the root
RECURSIVE Level(_, _)
Level(parent, i) == IF parent[i] = 0 THEN 0 ELSE 1 + Level(parent, parent[i])

\* the zero-based position of element i among the children of its parent
ChildPosition(parent, i) ==
    Cardinality({j \in 1..(i - 1) : parent[j] = parent[i]})

\* the child positions on the path from below the child of the root down to
\* element i
RECURSIVE PositionsBelowComponent(_, _)
PositionsBelowComponent(parent, i) ==
    IF Level(parent, i) <= 1 THEN <<>>
    ELSE Append(PositionsBelowComponent(parent, parent[i]),
                ChildPosition(parent, i))

RECURSIVE ComponentOf(_, _)
ComponentOf(parent, i) ==
    IF Level(parent, i) <= 1 THEN i ELSE ComponentOf(parent, parent[i])

\* the position of every element in document order
DocPositions(parent) ==
    LET order == Iter(parent)
    IN  [i \in 1..Len(parent) |-> CHOOSE k \in 1..Len(order) : order[k] = i]

\* the program is inside process_xml with the scene parsed and not yet written
InCall == pc \in {"scene", "replace", "mappings", "fix", "memory", "write"}

\* the scene as it was read from the file
Original == ParseScene(fs_i3d[i3d_path])

\* the scene has been traversed to its end
Traversed == pc \in {"replace", "mappings", "fix", "memory", "write"}

\* how many elements below the root, up to element e in document order,
\* carry the name element e has; pos gives the document positions
Occurrence(tree, pos, e) ==
    Cardinality({j \in 1..Len(tree.parent) :
                    /\ tree.parent[j] # 0
                    /\ tree.name[j] = tree.name[e]
                    /\ pos[j] <= pos[e]})

Suffixed(name, k) == name \o <<"_">> \o PadLeft3(str(k))

(***************************************************************************)
(* C1                                                                      *)
(***************************************************************************)
\* C1 as stated: among the named nodes visited at depth >= 2, the first
\* occurrence of a name in document order keeps it and the k-th occurrence
\* (k >= 2) is renamed to the name followed by _ and k-1 padded to three
\* digits.
C1_SuffixIsKMinusOne ==
    InCall =>
        LET orig == Original
            pos == DocPositions(orig.parent)
        IN  \A k \in 1..Len(visited) :
                (visited[k].depth >= 2 /\ orig.name[visited[k].e] # <<>>) =>
                    visited[k].name =
                        IF Occurrence(orig, pos, visited[k].e) = 1
                        THEN orig.name[visited[k].e]
                        ELSE Suffixed(orig.name[visited[k].e],
                                      Occurrence(orig, pos, visited[k].e) - 1)

\* C1 amended: among the named nodes visited at depth >= 2, the first
\* occurrence of a name in document order keeps it and the k-th occurrence
\* (k >= 2) is renamed to the name followed by _ and k padded to three
\* digits, and the scene tree holds that name.
C1_SuffixIsK ==
    InCall =>
        LET orig == Original
            pos == DocPositions(orig.parent)
        IN  \A k \in 1..Len(visited) :
                (visited[k].depth >= 2 /\ orig.name[visited[k].e] # <<>>) =>
                    /\ visited[k].name =
                           IF Occurrence(orig, pos, visited[k].e) = 1
                           THEN orig.name[visited[k].e]
                           ELSE Suffixed(orig.name[visited[k].e],
                                         Occurrence(orig, pos, visited[k].e))
                    /\ this_xml.name[visited[k].e] = visited[k].name

\* three nodes named w were visited and got w, w_002, w_003 in this order
C1_ThreeWheels ==
    /\ Traversed
    /\ \E i, j, k \in 1..Len(visited) :
           /\ i < j /\ j < k
           /\ Original.name[visited[i].e] = W /\ visited[i].name = W
           /\ Original.name[visited[j].e] = W /\ visited[j].name = W2
           /\ Original.name[visited[k].e] = W
           /\ visited[k].name = <<"w", "_", "0", "0", "3">>

(***************************************************************************)
(* C3                                                                      *)
(***************************************************************************)
\* C3 as stated: the Scene root is reported at depth 0 and its children at
\* depth 1, and neither the root nor its children get an address, a mapping
\* entry or a rename.
C3_RootAtDepthZero ==
    InCall =>
        LET orig == Original
        IN
            \A k \in 1..Len(visited) :
                /\ visited[k].depth = Level(orig.parent, visited[k].e)
                /\ Level(orig.parent, visited[k].e) <= 1 =>
                       /\ ~visited[k].has
                       /\ visited[k].name = orig.name[visited[k].e]

\* C3 amended: the Scene root is reported at depth 1 and its children at
\* depth 2; the root alone gets no address, no mapping entry, no rename and
\* no count in the registry; the children of the root are the components,
\* addressed N> with N their position among the children of the root.
C3_RootAtDepthOne ==
    InCall =>
        LET orig == Original
        IN
            /\ \A k \in 1..Len(visited) :
                   LET e == visited[k].e
                       lv == Level(orig.parent, e)
                   IN  /\ visited[k].depth = lv + 1
                       /\ visited[k].has <=> lv >= 1
                       /\ lv = 0 => /\ visited[k].name = orig.name[e]
                                    /\ this_xml.name[e] = orig.name[e]
                       /\ lv = 1 => visited[k].node_path =
                                        str(ChildPosition(orig.parent, e)) \o <<">">>
            /\ Len(print_names) =
                   Cardinality({k \in 1..Len(visited) :
                                   /\ Level(orig.parent, visited[k].e) >= 1
                                   /\ orig.name[visited[k].e] # <<>>})
            /\ \A n \in DOMAIN unique_names :
                   unique_names[n] =
                       Cardinality({k \in 1..Len(visited) :
                                       /\ Level(orig.parent, visited[k].e) >= 1
                                       /\ orig.name[visited[k].e] = n})

\* a named Scene root with a child of the same name: the child is component
\* 0, has a mapping entry and keeps its name
C3_ChildIsComponent ==
    /\ Traversed
    /\ Original.name[1] = W
    /\ \E k \in 1..Len(visited) :
           /\ Original.parent[visited[k].e] = 1
           /\ visited[k].name = W
           /\ visited[k].node_path = <<"0", ">">>
           /\ [name |-> W, node |-> <<"0", ">">>] \in Range(print_names)

(***************************************************************************)
(* C4                                                                      *)
(***************************************************************************)
\* the address of element i by its position in the tree
ReferenceAddress(parent, i) ==
    LET path == PositionsBelowComponent(parent, i)
    IN  str(ChildPosition(parent, ComponentOf(parent, i))) \o <<">">>
            \o JoinPipe([k \in 1..Len(path) |-> str(path[k])])

\* C4: the address computed for a node at or below the component level is
\* "<c>>" followed by the pipe-joined zero-based child positions on the path
\* from its component down to it, c being the zero-based position of the
\* component among the component-level nodes.
C4_AddressIsPosition ==
    InCall =>
        LET orig == Original
        IN
            \A k \in 1..Len(visited) :
                visited[k].has =>
                    visited[k].node_path =
                        ReferenceAddress(orig.parent, visited[k].e)

\* a node addressed 0>1 was visited right after a node three levels deeper
\* than the component, so the depth dropped by two in one step
C4_Backtracked ==
    /\ Traversed
    /\ \E k \in 2..Len(visited) :
           /\ visited[k].node_path = <<"0", ">", "1">>
           /\ visited[k - 1].depth = visited[k].depth + 2

(***************************************************************************)
(* C6                                                                      *)
(***************************************************************************)
\* C6: after the traversal no two mapping entries have the same id.
C6_IdsDistinct ==
    Traversed =>
        \A i, j \in 1..Len(mapping_root) :
            i # j => mapping_root[i].id # mapping_root[j].id

(***************************************************************************)
(* C2, C8                                                                  *)
(***************************************************************************)
\* the configuration tree as it was read from the file
OriginalConfig == ParseConfig(fs_xml[xml_path])

\* the NodeAddress pattern: one or more digits, the separator, then zero or
\* more digits or pipes
NodeAddressPattern(value) ==
    \E n \in 1..Len(value) :
        /\ n >= 2
        /\ value[n] = ">"
        /\ \A i \in 1..(n - 1) : value[i] \in Digits
        /\ \A i \in (n + 1)..Len(value) : value[i] \in Digits \cup {"|"}

Vocabulary == Range(NODE_TYPES)

\* C2, for the elements below the configuration root: after the rewrite
\* every vocabulary attribute of an element that is no mapping entry whose
\* value matches the NodeAddress pattern and is a key of the lookup holds
\* the looked-up name, whatever the number of digits of the component index.
C2_EveryMatchReplaced ==
    pc = "mappings" =>
        LET pre == OriginalConfig.elems
        IN  \A i \in 2..Len(pre) : \A a \in DOMAIN pre[i].attrs :
                ( /\ pre[i].tag # "i3dMapping"
                  /\ a \in Vocabulary
                  /\ NodeAddressPattern(pre[i].attrs[a])
                  /\ pre[i].attrs[a] \in DOMAIN map_cache )
                    => shop_xml.elems[i].attrs[a] = map_cache[pre[i].attrs[a]]

\* C8: the rewrite changes an attribute value only if the attribute is in
\* the vocabulary, its element is no mapping entry and its value is a key of
\* the lookup, and then to the looked-up name; it changes nothing else of
\* the tree, and the count it reports is the number of attributes changed.
C8_OnlyLookedUpReferencesChange ==
    pc = "mappings" =>
        LET pre == OriginalConfig.elems
            post == shop_xml.elems
            all == UNION {{<<i, a>> : a \in DOMAIN pre[i].attrs} : i \in 1..Len(pre)}
            changed == {x \in all :
                           post[x[1]].attrs[x[2]] # pre[x[1]].attrs[x[2]]}
        IN  /\ Len(post) = Len(pre)
            /\ \A i \in 1..Len(pre) :
                   /\ post[i].tag = pre[i].tag
                   /\ post[i].parent = pre[i].parent
                   /\ DOMAIN post[i].attrs = DOMAIN pre[i].attrs
                   /\ \A a \in DOMAIN pre[i].attrs :
                          post[i].attrs[a] # pre[i].attrs[a] =>
                              /\ a \in Vocabulary
                              /\ pre[i].tag # "i3dMapping"
                              /\ pre[i].attrs[a] \in DOMAIN map_cache
                              /\ post[i].attrs[a] = map_cache[pre[i].attrs[a]]
            /\ counts.replaced = Cardinality(changed)
            /\ log[Len(log)] = Msg("Replaced numeric node reference(s)",
                                   str(Cardinality(changed)))

\* a reference of a part was replaced while a mapping entry holding a key of
\* the lookup kept its value
C8_ReplacedBesideMappingEntry ==
    /\ pc = "mappings"
    /\ counts.replaced = 1
    /\ \E i, j \in 2..Len(shop_xml.elems) :
           /\ OriginalConfig.elems[i].tag = "part"
           /\ "node" \in DOMAIN shop_xml.elems[i].attrs
           /\ OriginalConfig.elems[i].attrs["node"] = <<"0", ">">>
           /\ shop_xml.elems[i].attrs["node"] = W
           /\ shop_xml.elems[j].tag = "i3dMapping"
           /\ "node" \in DOMAIN shop_xml.elems[j].attrs
           /\ shop_xml.elems[j].attrs["node"] = <<"0", ">">>

(***************************************************************************)
(* C7                                                                      *)
(***************************************************************************)
IsMemoryTag(tag) == tag \in Range(MEMORY_TAGS)

\* C7: after the strip phase no element of the tree has a memory-usage tag,
\* the reported count is the number of such elements the tree had, and with
\* none of them the tree is as it was.
C7_AllRemovedAndCounted ==
    pc = "write" =>
        LET pre == OriginalConfig.elems
            n == Cardinality({i \in 2..Len(pre) : IsMemoryTag(pre[i].tag)})
        IN  /\ \A i \in 1..Len(shop_xml.elems) : ~IsMemoryTag(shop_xml.elems[i].tag)
            /\ counts.removed = n
            /\ n = 0 => SubSeq(shop_xml.elems, 1, Len(pre)) = Prune(pre, {})

(***************************************************************************)
(* C5                                                                      *)
(***************************************************************************)
\* C5: from the second run on, a run writes the scene file and the
\* configuration file the run before it wrote.
C5_StableFromSecondRun ==
    \A i \in 3..Len(writes) :
        i + 2 <= Len(writes) => writes[i + 2] = writes[i]

(***************************************************************************)
(* C9                                                                      *)
(***************************************************************************)
\* the conditions under which the processing of the configuration file at
\* path ends early, read off the files
EndsEarly(path) ==
    LET shop == ParseConfig(fs_xml[path])
        name == strip(shop.filename.text)
    IN  \/ ~shop.ok
        \/ ~shop.filename.present
        \/ name = <<>>
        \/ startswith(name, DataPrefix)
        \/ clean_path(name) \notin DOMAIN fs_i3d
        \/ ~ParseScene(fs_i3d[clean_path(name)]).ok
        \/ ~ParseScene(fs_i3d[clean_path(name)]).hasScene

EarlyMessages ==
    { "ERROR while processing", "filename tag missing or empty",
      "i3d file is in $data", ".i3d file not found", "Failed to parse i3d file",
      "No <Scene> node found in i3d" }

\* C9: a call of process_xml on a configuration file that meets one of the
\* early-exit conditions writes no file, logs a message saying why and
\* returns to the batch loop, which goes on with the next item.
C9_EarlyExitWritesNothing ==
    [][ (pc = "process_xml" /\ EndsEarly(xml_path)) =>
            /\ writes' = writes
            /\ fs_i3d' = fs_i3d
            /\ fs_xml' = fs_xml
            /\ pc' = "items"
            /\ item' = item + 1
            /\ log'[Len(log')].k \in EarlyMessages ]_vars

\* a call has just ended on a $data reference, nothing written
C9_SkippedData ==
    /\ pc = "items"
    /\ item = 2
    /\ log[Len(log)].k = "i3d file is in $data"
    /\ writes = <<>>

(***************************************************************************)
(* C10                                                                     *)
(***************************************************************************)
\* the store items among the first n whose xmlFilename names an existing
\* configuration file, as paths
ExistingItems(n) ==
    LET chosen == SelectSeq(SubSeq(moddesc.items, 1, n),
                            LAMBDA x : x # <<>> /\ clean_path(x) \in DOMAIN fs_xml)
    IN  [i \in 1..Len(chosen) |-> clean_path(chosen[i])]

\* the paths process_xml was called with, by the log
Processed ==
    LET calls == SelectSeq(log, LAMBDA m : m.k = "Processing XML")
    IN  [i \in 1..Len(calls) |-> calls[i].a]

\* C10: the calls of process_xml made so far are those for the existing
\* store items passed so far, once each and in descriptor order, no error
\* has left process_xml, and inside a call the registry counts the names of
\* the scene of that call alone.
C10_EveryItemOnceFresh ==
    /\ pc # "crashed"
    /\ pc = "items" => Processed = ExistingItems(item - 1)
    /\ (pc = "idle" /\ runs = 0 /\ moddesc.wf) =>
           Processed = ExistingItems(Len(moddesc.items))
    /\ InCall =>
           LET orig == Original
           IN  \A n \in DOMAIN unique_names :
                   unique_names[n] =
                       Cardinality({k \in 1..Len(visited) :
                                       /\ visited[k].depth >= 2
                                       /\ orig.name[visited[k].e] = n})

\* the batch is over; a call that raised was followed by a call that renamed
\* a duplicate and by a call on a file renamed before
C10_WentOnAfterFailure ==
    /\ pc = "idle"
    /\ runs = 0
    /\ \E i, j, k \in 1..Len(log) :
           /\ i < j /\ j < k
           /\ log[i].k = "ERROR while processing"
           /\ log[j].k = "duplicate node name(s) were renamed"
           /\ log[k].k = "No duplicate node names found"

====
